---------------------------- MODULE Spec2Model ----------------------------
(***************************************************************************)
(* Model of the stock loading pipeline of Claude-Stocks:                   *)
(*   src/stock_data_loader_fast.py  (the batched "fast" loader)            *)
(*   src/stock_data_loader.py       (class StockDataLoader, the per-ticker *)
(*                                   "slow" loader)                        *)
(*                                                                         *)
(* Prices are integers (a close of 100 is 100 price units); a percentage   *)
(* is kept exactly as the pair (curr - prev, prev) and compared by cross   *)
(* multiplication; a rounded percent_change is an integer number of        *)
(* hundredths of a percent (2000 is 20.00).  The missing value (None in    *)
(* the store, NaN in pandas) is NaN; numpy's result of x / 0 for x > 0 is  *)
(* Inf.  Dates are day numbers.  Tickers are numbers, so that the sort by  *)
(* ticker is the order of the numbers.                                     *)
(***************************************************************************)
EXTENDS Integers, Sequences, FiniteSets, TLC

VARIABLES
    loader,         \* "fast": stock_data_loader_fast.py, "slow": StockDataLoader
    pc,             \* position of the running procedure
    target_date,    \* fast: get_last_market_day(); slow: the date of the newest bar
    clock,          \* pd.Timestamp.now() / datetime.now(), in runs
    stocks_daily,   \* the table stocks_daily, unique (ticker, date)
    daily_movers,   \* the table daily_movers, unique (ticker, date)
    weekly_movers,  \* the table weekly_movers, unique (ticker, week_end_date)
    movers,         \* the list `movers` of the latest mover computation
    rejected,       \* positions of `movers` whose upsert the store rejected
    calc_error,     \* the latest mover computation ended in its outer except
    ran,            \* the mover computations executed so far in this run
    batch_i,        \* fast main: index i of the batch loop; slow: tickers processed
    df,             \* fast main: the frame fetch_batch_data returned
    records,        \* fast main: the list prepare_records returned
    total_records,  \* fast main: total_records
    persisted,      \* bars the store committed during this run
    fetched,        \* fast main: batches fetch_batch_data was called for
    fetch_failed,   \* fast main: batches whose download raised
    offered,        \* fast main: the records handed to upsert_records so far
    successful,     \* run_daily_update: successful
    failed,         \* run_daily_update: failed
    attempt,        \* fetch_stock_data: attempt of the retry loop
    raised,         \* fetch_stock_data: attempts of this call that raised
    slept,          \* fetch_stock_data: the time.sleep() calls made, in seconds
    stock_data,     \* fetch_stock_data: its return value (NoData for None)
    env,            \* the configuration: credentials, tickers table, ticker CSV
    probed,         \* get_last_market_day() has issued its SPY download
    tickers_df,     \* main: the tickers loaded (tickers_df / tickers)
    raw_data,       \* the frame yf.download returned (fetch_batch_data: data)
    response,       \* the rows of a range query, in the order the store sent them
    db_read         \* get_tickers_from_db: the tickers table and the locals
                    \* offset and all_rows of the paginated read

\* the variables the drivers and the mover computations leave alone
setup == << env, probed, tickers_df, raw_data, response, db_read >>

vars == << loader, pc, target_date, clock, stocks_daily, daily_movers,
           weekly_movers, movers, rejected, calc_error, ran, batch_i, df,
           records, total_records, persisted, fetched, fetch_failed,
           offered, successful, failed, attempt, raised, slept,
           stock_data, env, probed, tickers_df, raw_data, response, db_read >>

----------------------------------------------------------------------------
(* Bounds of the model *)

NumTickers == 2     \* tickers of the universe in the mover specifications
MaxBack == 11       \* the oldest bar of a history is MaxBack days before the target
MaxBars == 6        \* bars in one ticker's history

(* Program constants *)

min_percent == 15   \* calculate_daily_movers(min_percent = 15.0)
max_retries == 3    \* fetch_stock_data(max_retries = 3)

(* Values *)

NaN == -1                \* a missing value: None in a row, NaN in a frame
Inf == 1000000000        \* numpy: x / 0 for x > 0 (with a RuntimeWarning)
Invalid == -2            \* a raw value that is not a number (errors='coerce')

Loaders == {"fast", "slow"}
Tickers == 1 .. NumTickers
TargetDate == MaxBack
Closes == {NaN, 0, 100, 115, 120}
Volumes == {NaN, 5}

isna(x) == x = NaN
Abs(x) == IF x < 0 THEN -x ELSE x
Min(S) == CHOOSE x \in S : \A y \in S : x <= y

----------------------------------------------------------------------------
(* Tables *)

Bar(t, d, o, h, l, c, v, at) ==
    [ticker |-> t, date |-> d, open_price |-> o, high_price |-> h,
     low_price |-> l, close_price |-> c, volume |-> v, created_at |-> at]

\* fetch_stock_data returning None
NoData == Bar(0, 0, NaN, NaN, NaN, NaN, NaN, 0)

BarKey(r) == << r.ticker, r.date >>
DailyKey(m) == << m.ticker, m.date >>
WeeklyKey(m) == << m.ticker, m.week_end_date >>

\* (an insert that ignores the conflict key)
UpsertBarsInsert(table, rows) == table \cup rows

\* (an upsert that replaces the table by the rows)
UpsertBarsReplace(table, rows) == rows

\* table.upsert(rows, on_conflict = key): insert or replace by key
UpsertBars(table, rows) ==
    {r \in table : \A n \in rows : BarKey(n) # BarKey(r)} \cup rows

\* (an insert that ignores the conflict key)
UpsertDailyInsert(table, rows) == table \cup rows

\* (a table refreshed to hold the latest movers only)
UpsertDailyRefresh(table, rows) == rows

UpsertDaily(table, rows) ==
    {r \in table : \A n \in rows : DailyKey(n) # DailyKey(r)} \cup rows

UpsertWeekly(table, rows) ==
    {r \in table : \A n \in rows : WeeklyKey(n) # WeeklyKey(r)} \cup rows

\* .gte('date', lo).lte('date', hi)
DateRange(table, lo, hi) == {r \in table : lo <= r.date /\ r.date <= hi}


----------------------------------------------------------------------------
(* Percent change.  (curr - prev) / prev * 100 is kept exact: the pair of *)
(* its numerator and denominator.                                          *)

\* abs(percent_change) >= min_percent, for prev > 0 and curr a number
AbsPctAtLeast(prev, curr, pct) == Abs(curr - prev) * 100 >= pct * prev

\* round(percent_change, 2) in hundredths of a percent, half to even
Round2(prev, curr) ==
    LET num == Abs(curr - prev) * 10000
        fl == num \div prev
        rem == num % prev
        up == IF 2 * rem > prev THEN fl + 1
              ELSE IF 2 * rem < prev THEN fl
              ELSE IF fl % 2 = 0 THEN fl ELSE fl + 1
    IN  IF curr < prev THEN -up ELSE up

\* What numpy gives for ((curr - prev) / prev) * 100 when nothing guards it:
\* "nan" (a NaN operand, or 0 / 0), "inf" (x / 0, x > 0) or "num".
PctKind(prev, curr) ==
    IF isna(prev) \/ isna(curr) THEN "nan"
    ELSE IF prev = 0 THEN (IF curr = 0 THEN "nan" ELSE "inf")
    ELSE "num"

\* abs(percent_change) >= min_percent on such a value (False on NaN)
PctIsMover(prev, curr) ==
    CASE PctKind(prev, curr) = "nan" -> FALSE
      [] PctKind(prev, curr) = "inf" -> TRUE
      [] OTHER -> AbsPctAtLeast(prev, curr, min_percent)

PctRounded(prev, curr) ==
    IF PctKind(prev, curr) = "inf" THEN Inf ELSE Round2(prev, curr)

----------------------------------------------------------------------------
(* The rows of one ticker, sorted by date: ticker_data *)

Newest(td) == CHOOSE r \in td : \A s \in td : s.date <= r.date
Oldest(td) == CHOOSE r \in td : \A s \in td : r.date <= s.date
\* ticker_data.iloc[-1], ticker_data.iloc[-2], ticker_data.iloc[0]
ILocLast(td) == Newest(td)
ILocPrev(td) == Newest(td \ {Newest(td)})
ILocFirst(td) == Oldest(td)

RECURSIVE SortedSeq(_)
\* df.sort_values(['ticker', ...])['ticker'].unique()
SortedSeq(S) ==
    IF S = {} THEN << >>
    ELSE LET m == Min(S) IN << m >> \o SortedSeq(S \ {m})

TickerData(rows, t) == {r \in rows : r.ticker = t}

NoMover == [ticker |-> 0]
Skip == [kind |-> "skip", rec |-> NoMover]
Raise == [kind |-> "error", rec |-> NoMover]
Emit(m) == [kind |-> "mover", rec |-> m]

----------------------------------------------------------------------------
(* Daily movers *)

\* the window of the range query
DailyLo(ld, target) == IF ld = "fast" THEN (target - 1) - 3 ELSE target - 1
DailyHi(ld, target) == target

\* fast only: if prev_close == 0 or pd.isna(prev_close) or pd.isna(curr_close)
DailyGuard(ld, prev_close, curr_close) ==
    ld = "fast" /\ (prev_close = 0 \/ isna(prev_close) \/ isna(curr_close))

\* the body of the loop from the two rows it reads: prev is
\* ticker_data.iloc[-2] and last is ticker_data.iloc[-1]
DailyFrom(ld, prev, last, now) ==
    LET prev_close == prev.close_price
        curr_close == last.close_price
        curr_date == last.date
    IN  IF DailyGuard(ld, prev_close, curr_close) THEN Skip
        ELSE IF ~PctIsMover(prev_close, curr_close) THEN Skip
        \* int(ticker_data.iloc[-1]['volume']) raises on a missing volume
        ELSE IF isna(last.volume) THEN Raise
        ELSE Emit([ticker |-> last.ticker,
                   date |-> curr_date,
                   previous_close |-> prev_close,
                   current_close |-> curr_close,
                   percent_change |-> PctRounded(prev_close, curr_close),
                   volume |-> last.volume,
                   created_at |-> now])

\* the body of `for ticker in df['ticker'].unique()` for one ticker
DailyBody(ld, td, now) ==
    IF Cardinality(td) < 2 THEN Skip
    ELSE DailyFrom(ld, ILocPrev(td), ILocLast(td), now)

----------------------------------------------------------------------------
(* Weekly movers *)

WeeklyLo(ld, target) == IF ld = "fast" THEN target - 10 ELSE (target + 1) - 10
WeeklyHi(ld, target) == IF ld = "fast" THEN target ELSE target + 1

\* fast only: the guard on week_start_close
WeeklyGuard(ld, week_start_close, week_end_close) ==
    ld = "fast" /\ (week_start_close = 0 \/ isna(week_start_close)
                    \/ isna(week_end_close))

\* the body of the loop from the two rows it reads: first is
\* ticker_data.iloc[0] and last is ticker_data.iloc[-1]
WeeklyFrom(ld, first, last, now) ==
    LET week_start_close == first.close_price
        week_end_close == last.close_price
        week_start_date == first.date
        week_end_date == last.date
        days_diff == week_end_date - week_start_date
    IN  IF days_diff < 5 \/ days_diff > 9 THEN Skip
        ELSE IF WeeklyGuard(ld, week_start_close, week_end_close) THEN Skip
        ELSE IF ~PctIsMover(week_start_close, week_end_close) THEN Skip
        ELSE Emit([ticker |-> last.ticker,
                   week_start_date |-> week_start_date,
                   week_end_date |-> week_end_date,
                   week_start_close |-> week_start_close,
                   week_end_close |-> week_end_close,
                   percent_change |->
                       PctRounded(week_start_close, week_end_close),
                   created_at |-> now])

WeeklyBody(ld, td, now) ==
    IF Cardinality(td) < 5 THEN Skip
    ELSE WeeklyFrom(ld, ILocFirst(td), ILocLast(td), now)

----------------------------------------------------------------------------
(* The ticker loop and the upsert loop, shared by the two computations *)

DailyBodyNow(td) == DailyBody(loader, td, clock)
WeeklyBodyNow(td) == WeeklyBody(loader, td, clock)

\* the loop body of the computation `which`
Body(which, td) ==
    IF which = "daily" THEN DailyBodyNow(td) ELSE WeeklyBodyNow(td)

\* the loop over the tickers: the list `movers`, in the order of the tickers
MoversList(rows, which) ==
    LET ts == SortedSeq({r.ticker : r \in rows})
        hit == SelectSeq(ts, LAMBDA t :
                   Body(which, TickerData(rows, t)).kind = "mover")
    IN  [i \in 1 .. Len(hit) |-> Body(which, TickerData(rows, hit[i])).rec]

\* an exception inside the loop leaves it for the outer `except`
LoopRaises(rows, which) ==
    \E t \in {r.ticker : r \in rows} :
        Body(which, TickerData(rows, t)).kind = "error"

\* the rows of the tickers the loop reached before one raised
Reached(rows, which) ==
    LET bad == {t \in {r.ticker : r \in rows} :
                    Body(which, TickerData(rows, t)).kind = "error"}
    IN  {r \in rows : \A t \in bad : r.ticker < t}

\* `for mover in movers: try: upsert(mover) except: log`: the records the
\* store took, when it rejected those at the positions rej
\* (a loop that gave up at the first rejected upsert)
AcceptedUntilRejected(ms, rej) ==
    {ms[i] : i \in {j \in 1 .. Len(ms) : \A k \in rej : j < k}}

Accepted(ms, rej) == {ms[i] : i \in (1 .. Len(ms)) \ rej}

----------------------------------------------------------------------------
(* calculate_daily_movers / calculate_and_insert_daily_movers, and the     *)
(* weekly pair: one call, from the range query to the last upsert.  The    *)
(* store rejects the upserts at the positions rej of the list.             *)

DailyRows == DateRange(stocks_daily, DailyLo(loader, target_date),
                       DailyHi(loader, target_date))

calculate_daily_movers ==
    /\ ran' = ran \cup {"daily"}
    /\ UNCHANGED << stocks_daily, weekly_movers >>
    /\ IF DailyRows = {}
       THEN \* if not response.data: return
            /\ movers' = << >>
            /\ rejected' = {}
            /\ calc_error' = FALSE
            /\ UNCHANGED daily_movers
       ELSE IF LoopRaises(DailyRows, "daily")
       THEN \* except Exception as e: logger.error(...)
            /\ movers' = MoversList(Reached(DailyRows, "daily"), "daily")
            /\ rejected' = {}
            /\ calc_error' = TRUE
            /\ UNCHANGED daily_movers
       ELSE LET ms == MoversList(DailyRows, "daily")
            IN  \E rej \in SUBSET (1 .. Len(ms)) :
                    /\ movers' = ms
                    /\ rejected' = rej
                    /\ calc_error' = FALSE
                    /\ daily_movers' = UpsertDaily(daily_movers, Accepted(ms, rej))

WeeklyRows == DateRange(stocks_daily, WeeklyLo(loader, target_date),
                        WeeklyHi(loader, target_date))

calculate_weekly_movers ==
    /\ ran' = ran \cup {"weekly"}
    /\ UNCHANGED << stocks_daily, daily_movers >>
    /\ IF WeeklyRows = {}
       THEN /\ movers' = << >>
            /\ rejected' = {}
            /\ calc_error' = FALSE
            /\ UNCHANGED weekly_movers
       ELSE IF LoopRaises(WeeklyRows, "weekly")
       THEN /\ movers' = MoversList(Reached(WeeklyRows, "weekly"), "weekly")
            /\ rejected' = {}
            /\ calc_error' = TRUE
            /\ UNCHANGED weekly_movers
       ELSE LET ms == MoversList(WeeklyRows, "weekly")
            IN  \E rej \in SUBSET (1 .. Len(ms)) :
                    /\ movers' = ms
                    /\ rejected' = rej
                    /\ calc_error' = FALSE
                    /\ weekly_movers' = UpsertWeekly(weekly_movers, Accepted(ms, rej))

----------------------------------------------------------------------------
(* SpecMovers: the two mover computations of either loader, applied to a   *)
(* bounded family of stocks_daily tables.                                  *)
(*                                                                         *)
(* Ticker 1 has n bars spanning s days: one s days before the target with  *)
(* close cf, n - 2 on the days just before the target with close 100, and  *)
(* one on the target date with close cl and volume v.  Every other ticker  *)
(* has five bars over seven days going from 100 to 120.                    *)

History(s, n, cf, cl, v) ==
    IF n = 0 THEN {}
    ELSE {Bar(1, TargetDate, 1, 1, 1, cl, v, 0)}
         \cup (IF n >= 2 THEN {Bar(1, TargetDate - s, 1, 1, 1, cf, 5, 0)} ELSE {})
         \cup {Bar(1, TargetDate - k, 1, 1, 1, 100, 5, 0) : k \in 1 .. (n - 2)}

Steady(t) ==
    {Bar(t, TargetDate, 1, 1, 1, 120, 5, 0), Bar(t, TargetDate - 7, 1, 1, 1, 100, 5, 0)}
    \cup {Bar(t, TargetDate - k, 1, 1, 1, 100, 5, 0) : k \in 1 .. 3}

Shapes ==
    {<< 0, 0 >>, << 0, 1 >>}
    \cup {<< s, n >> \in (1 .. MaxBack) \X (2 .. MaxBars) : n - 1 <= s}

Histories ==
    {History(sn[1], sn[2], cf, cl, v) :
        sn \in Shapes, cf \in Closes, cl \in Closes, v \in Volumes}

Idle ==
    /\ batch_i = 0
    /\ df = {}
    /\ records = << >>
    /\ total_records = 0
    /\ persisted = {}
    /\ fetched = {}
    /\ fetch_failed = {}
    /\ offered = {}
    /\ successful = 0
    /\ failed = 0
    /\ attempt = 0
    /\ raised = 0
    /\ slept = << >>
    /\ stock_data = NoData

\* get_tickers_from_db before its loop: offset = 0, all_rows = [], no page
\* requested (table: the active tickers of the table tickers)
NoRead == [table |-> {}, offset |-> 0, all_rows |-> << >>,
           requested |-> << >>, failed |-> FALSE, changed |-> FALSE]

\* a run on a valid configuration, before it has asked for anything
Plain ==
    /\ probed = FALSE
    /\ tickers_df = << >>
    /\ raw_data = {}
    /\ response = << >>
    /\ db_read = NoRead

\* the configuration of a run: creds, SUPABASE_URL and SUPABASE_KEY are set;
\* db, the active tickers of the table tickers (tickers 1 .. db); bad, the
\* page request of get_tickers_from_db that raises (0: none); csv, the
\* tickers of the CSV file (NaN: the file cannot be read)
Env(creds, db, bad, csv) == [creds |-> creds, db |-> db, bad |-> bad, csv |-> csv]

InitMovers ==
    /\ loader \in Loaders
    /\ pc = "ready"
    /\ target_date = TargetDate
    /\ clock = 1
    /\ stocks_daily \in
         {h \cup UNION {Steady(t) : t \in Tickers \ {1}} : h \in Histories}
    /\ daily_movers = {}
    /\ weekly_movers = {}
    /\ movers = << >>
    /\ rejected = {}
    /\ calc_error = FALSE
    /\ ran = {}
    /\ Idle
    /\ Plain
    /\ env = Env(TRUE, NumTickers, 0, NumTickers)

driver == << batch_i, df, records, total_records, persisted, fetched,
             fetch_failed, offered, successful, failed, attempt, raised,
             slept, stock_data >>

CalcDaily ==
    /\ pc = "ready"
    /\ pc' = "daily_done"
    /\ calculate_daily_movers
    /\ UNCHANGED << setup, loader, target_date, clock, driver >>

CalcWeekly ==
    /\ pc = "ready"
    /\ pc' = "weekly_done"
    /\ calculate_weekly_movers
    /\ UNCHANGED << setup, loader, target_date, clock, driver >>

NextMovers == CalcDaily \/ CalcWeekly

SpecMovers == InitMovers /\ [][NextMovers]_vars

----------------------------------------------------------------------------
(* SpecRerun: a mover computation run once and, later, once more on the    *)
(* same stocks_daily table with the same target date.                      *)

\* time passes between the two runs
Later ==
    /\ pc \in {"daily_done", "weekly_done"}
    /\ pc' = IF pc = "daily_done" THEN "daily_rerun" ELSE "weekly_rerun"
    /\ clock' = clock + 1
    /\ UNCHANGED << setup, loader, target_date, stocks_daily, daily_movers,
                    weekly_movers, movers, rejected, calc_error, ran,
                    driver >>

CalcDailyAgain ==
    /\ pc = "daily_rerun"
    /\ pc' = "daily_twice"
    /\ calculate_daily_movers
    /\ UNCHANGED << setup, loader, target_date, clock, driver >>

CalcWeeklyAgain ==
    /\ pc = "weekly_rerun"
    /\ pc' = "weekly_twice"
    /\ calculate_weekly_movers
    /\ UNCHANGED << setup, loader, target_date, clock, driver >>

NextRerun ==
    CalcDaily \/ CalcWeekly \/ Later \/ CalcDailyAgain \/ CalcWeeklyAgain

\* the tables of InitMovers in which ticker 1 starts from 0 or 100 and ends
\* without a close, unchanged or 20% up
RerunHistories ==
    {History(sn[1], sn[2], cf, cl, v) :
        sn \in Shapes, cf \in {0, 100}, cl \in {NaN, 100, 120}, v \in Volumes}

InitRerun ==
    /\ loader \in Loaders
    /\ pc = "ready"
    /\ target_date = TargetDate
    /\ clock = 1
    /\ stocks_daily \in
         {h \cup UNION {Steady(t) : t \in Tickers \ {1}} : h \in RerunHistories}
    /\ daily_movers = {}
    /\ weekly_movers = {}
    /\ movers = << >>
    /\ rejected = {}
    /\ calc_error = FALSE
    /\ ran = {}
    /\ Idle
    /\ Plain
    /\ env = Env(TRUE, NumTickers, 0, NumTickers)

SpecRerun == InitRerun /\ [][NextRerun]_vars

----------------------------------------------------------------------------
(* SpecRetain: a mover computation, then the load of a later run, which    *)
(* corrects the bar of the target date or adds the bar of the next market  *)
(* day, then the computation of that later run.                            *)

\* closes the later load may bring: none (stored by StockDataLoader, whose
\* fetch_stock_data keeps float(latest_data['Close']) as it is), zero, flat,
\* 20% and 50% above 100
ReloadCloses == {NaN, 0, 100, 120, 150}

\* ticker 1 with two bars or a full week, from cf to cl
RetainTables ==
    {h \cup UNION {Steady(t) : t \in Tickers \ {1}} :
        h \in {History(1, 2, cf, cl, 5) : cf \in {0, 100}, cl \in {100, 120}}
              \cup {History(7, MaxBars, 100, cl, 5) : cl \in {100, 120}}}

InitRetain ==
    /\ loader \in Loaders
    /\ pc = "ready"
    /\ target_date = TargetDate
    /\ clock = 1
    /\ stocks_daily \in RetainTables
    /\ daily_movers = {}
    /\ weekly_movers = {}
    /\ movers = << >>
    /\ rejected = {}
    /\ calc_error = FALSE
    /\ ran = {}
    /\ Idle
    /\ Plain
    /\ env = Env(TRUE, NumTickers, 0, NumTickers)

\* the later run up to its mover computations: target_date is the same or
\* the next market day, and the bar of ticker t for it is upserted
Reload ==
    /\ pc \in {"daily_done", "weekly_done"}
    /\ pc' = IF pc = "daily_done" THEN "daily_rerun" ELSE "weekly_rerun"
    /\ clock' = clock + 1
    /\ \E dt \in {0, 1}, t \in Tickers, c \in ReloadCloses :
          /\ target_date' = target_date + dt
          /\ stocks_daily' =
                UpsertBars(stocks_daily,
                           {Bar(t, target_date', 1, 1, 1, c, 5, clock')})
    /\ UNCHANGED << setup, loader, daily_movers, weekly_movers, movers,
                    rejected, calc_error, ran, driver >>

NextRetain ==
    CalcDaily \/ CalcWeekly \/ Reload \/ CalcDailyAgain \/ CalcWeeklyAgain

SpecRetain == InitRetain /\ [][NextRetain]_vars

----------------------------------------------------------------------------
(* The fast loader: fetch_batch_data, prepare_records, upsert_records      *)

\* a row of the frame yf.download returns, one per ticker and date
Raw(t, d, o, h, l, c, v) ==
    [ticker |-> t, date |-> d, open |-> o, high |-> h, low |-> l,
     close |-> c, volume |-> v]

\* (a ticker without data that loses the batch)
fetch_batch_dataAllOrNothing(data) ==
    IF \A r \in data : ~isna(r.close) THEN data ELSE {}

\* fetch_batch_data on a download that returned `data`: a ticker whose frame
\* is empty or whose close is missing on every row is left out
fetch_batch_data(data) ==
    {r \in data : \E x \in data : x.ticker = r.ticker /\ ~isna(x.close)}

\* the frame after an exception of the download (the outer except)
fetch_batch_error == {}

RECURSIVE RowSeq(_)
\* the rows of a frame in the order of concat: by ticker, then by date
RowSeq(rows) ==
    IF rows = {} THEN << >>
    ELSE LET first == CHOOSE r \in rows : \A x \in rows :
                          \/ r.ticker < x.ticker
                          \/ (r.ticker = x.ticker /\ r.date <= x.date)
         IN  << first >> \o RowSeq(rows \ {first})

\* pd.to_numeric(x, errors='coerce')
to_numeric(x) == IF x = Invalid THEN NaN ELSE x

\* pd.to_numeric(volume, errors='coerce').fillna(0).astype('int64')
CoerceVolume(v) == IF isna(to_numeric(v)) THEN 0 ELSE to_numeric(v)

\* the frame after the coercion of the price columns and of volume
Coerced(frame) ==
    {[r EXCEPT !.open = to_numeric(@), !.high = to_numeric(@),
               !.low = to_numeric(@), !.close = to_numeric(@),
               !.volume = CoerceVolume(@)] : r \in frame}

\* (df.dropna() without its subset: a row missing any value is dropped)
dropnaAny(frame) ==
    {r \in frame : ~isna(r.ticker) /\ ~isna(r.close) /\ ~isna(r.open)
                    /\ ~isna(r.high) /\ ~isna(r.low)}

\* df.dropna(subset=['ticker', 'close'])
dropna(frame) == {r \in frame : ~isna(r.ticker) /\ ~isna(r.close)}

\* one record per row left; a missing open, high or low is None, and
\* created_at is pd.Timestamp.now()
prepare_records(frame, now) ==
    LET rs == RowSeq(dropna(Coerced(frame)))
    IN  [i \in 1 .. Len(rs) |->
            Bar(rs[i].ticker, rs[i].date, rs[i].open, rs[i].high, rs[i].low,
                rs[i].close, rs[i].volume, now)]

SeqSet(q) == {q[i] : i \in 1 .. Len(q)}

\* chunks of upsert_records: range(0, len(records), chunk_size)
NumChunks(recs, chunk_size) == (Len(recs) + chunk_size - 1) \div chunk_size

\* the records of the chunks before chunk f (1-based); all of them for f = 0,
\* which stands for no failing chunk
Committed(recs, chunk_size, f) ==
    IF f = 0 THEN SeqSet(recs)
    ELSE {recs[k] : k \in 1 .. ((f - 1) * chunk_size)}

----------------------------------------------------------------------------
(* main() of the fast loader, one step per statement of the batch loop     *)

UniverseSize == 3   \* tickers the ticker table holds
BATCH_SIZE == 2     \* tickers per download (150 in the source)
UPSERT_CHUNK == 1   \* records per upsert (800 in the source)

ticker_list == 1 .. UniverseSize
Batch(i) == {t \in ticker_list : i < t /\ t <= i + BATCH_SIZE}
BatchStarts == {i \in 0 .. (UniverseSize - 1) : i % BATCH_SIZE = 0}
BatchOf(t) == ((t - 1) \div BATCH_SIZE) * BATCH_SIZE

\* what the source may return for one ticker on the target date
RawCloses == {NaN, 100, 120}
Downloads(tickers, d) ==
    {rows \in SUBSET {Raw(t, d, 1, 1, 1, c, 5) : t \in tickers, c \in RawCloses} :
        \A a, b \in rows : a.ticker = b.ticker => a = b}

\* the bars of the days before the run: five trading days, closes of 100
Prior(t) ==
    {Bar(t, TargetDate - k, 1, 1, 1, 100, 5, 0) : k \in {1, 2, 3, 7}}

\* (movers computed as soon as one batch is loaded)
NextAfterBatchEager(i, total) ==
    IF total > 0 THEN "ComputeDailyMovers"
    ELSE IF i + BATCH_SIZE < UniverseSize THEN "FetchBatch"
    ELSE "Exit"

\* the end of one pass of `for i in range(0, len(ticker_list), BATCH_SIZE)`:
\* the next batch, or after the last one `if total_records > 0`
NextAfterBatch(i, total) ==
    IF i + BATCH_SIZE < UniverseSize THEN "FetchBatch"
    ELSE IF total > 0 THEN "ComputeDailyMovers"
    ELSE "Exit"

\* (an exception of the download that ended the run)
OnEmptyFrameFatal(i, total) == "Crashed"

\* `if df.empty: continue`
OnEmptyFrame(i, total) == NextAfterBatch(i, total)

\* the bars of the target date that an earlier run of the same day left
SameDay(t) == {Bar(t, TargetDate, 1, 1, 1, 90, 5, 0)}

Init ==
    /\ loader = "fast"
    /\ pc = "Idle"
    /\ target_date = NaN
    /\ clock = 1
    /\ stocks_daily \in {{}, UNION {Prior(t) : t \in ticker_list},
                          UNION {Prior(t) \cup SameDay(t) : t \in ticker_list}}
    /\ daily_movers = {}
    /\ weekly_movers = {}
    /\ movers = << >>
    /\ rejected = {}
    /\ calc_error = FALSE
    /\ ran = {}
    /\ Idle
    /\ Plain
    /\ env = Env(TRUE, UniverseSize, 0, NaN)

moverState == << daily_movers, weekly_movers, movers, rejected, calc_error, ran >>
slowState == << successful, failed, attempt, raised, slept, stock_data >>

\* client = get_supabase_client(), which ends the process with sys.exit(1)
\* when a credential is missing; target_date = get_last_market_day(), which
\* downloads SPY
Start ==
    /\ loader = "fast"
    /\ pc = "Idle"
    /\ IF ~env.creds
       THEN /\ pc' = "Exit"
            /\ UNCHANGED << target_date, probed >>
       ELSE /\ pc' = "LoadTickers"
            /\ target_date' = TargetDate
            /\ probed' = TRUE
    /\ UNCHANGED << db_read, env, tickers_df, raw_data, response, loader, clock,
                    stocks_daily, moverState, batch_i, df, records,
                    total_records, persisted, fetched, fetch_failed, offered,
                    slowState >>

page_size == 2      \* rows per page of get_tickers_from_db (1000 in the source)

RECURSIVE ReadPages(_, _, _, _)
\* the `while True` of get_tickers_from_db from `offset` on, over a table of
\* n active tickers; the page request number `bad` raises
ReadPages(n, offset, all_rows, bad) ==
    LET left == IF n - offset < page_size THEN n - offset ELSE page_size
        page_data == [i \in 1 .. left |-> offset + i]
    IN  IF offset \div page_size + 1 = bad THEN all_rows
        ELSE IF page_data = << >> THEN all_rows
        ELSE IF Len(page_data) < page_size THEN all_rows \o page_data
        ELSE ReadPages(n, offset + page_size, all_rows \o page_data, bad)

\* the rows read; main sees SystemExit when there is none
get_tickers_from_db(n, bad) == ReadPages(n, 0, << >>, bad)

\* the tickers of the CSV file (when it cannot be read, sys.exit(1): none)
load_tickers_from_csv(csv) == IF isna(csv) THEN << >> ELSE [i \in 1 .. csv |-> i]

\* try: tickers_df = get_tickers_from_db(client)
\* except: tickers_df = load_tickers_from_csv(csv_path)
\* The bare except also takes the SystemExit of get_tickers_from_db.  With
\* an empty ticker_list the batch loop does nothing, total_records stays 0
\* and main ends in its last sys.exit(1).
LoadTickers ==
    /\ pc = "LoadTickers"
    /\ LET rows == get_tickers_from_db(env.db, env.bad)
           list == IF rows # << >> THEN rows ELSE load_tickers_from_csv(env.csv)
       IN  /\ tickers_df' = list
           /\ pc' = IF list = << >> THEN "Exit" ELSE "FetchBatch"
    /\ batch_i' = 0
    /\ total_records' = 0
    /\ UNCHANGED << db_read, env, probed, raw_data, response, loader, target_date, clock,
                    stocks_daily, moverState, df, records, persisted, fetched,
                    fetch_failed, offered, slowState >>

\* df = fetch_batch_data(batch, target_date); if df.empty: continue
FetchBatch ==
    /\ pc = "FetchBatch"
    /\ fetched' = fetched \cup {batch_i}
    /\ \/ \* the download raised
          /\ raw_data' = {}
          /\ df' = fetch_batch_error
          /\ fetch_failed' = fetch_failed \cup {batch_i}
          /\ pc' = OnEmptyFrame(batch_i, total_records)
          /\ batch_i' = batch_i + BATCH_SIZE
       \/ \E data \in Downloads(Batch(batch_i), target_date) :
            /\ raw_data' = data
            /\ df' = fetch_batch_data(data)
            /\ UNCHANGED fetch_failed
            /\ IF df' = {}
               THEN /\ pc' = OnEmptyFrame(batch_i, total_records)
                    /\ batch_i' = batch_i + BATCH_SIZE
               ELSE /\ pc' = "Normalize"
                    /\ UNCHANGED batch_i
    /\ UNCHANGED << db_read, env, probed, tickers_df, response, loader, target_date,
                    clock, stocks_daily, moverState, records, total_records,
                    persisted, offered, slowState >>

\* records = prepare_records(df, ticker_map); if records: ... else: warning
Normalize ==
    /\ pc = "Normalize"
    /\ records' = prepare_records(df, clock)
    /\ IF records' # << >>
       THEN /\ pc' = "Upsert"
            /\ UNCHANGED batch_i
       ELSE /\ pc' = NextAfterBatch(batch_i, total_records)
            /\ batch_i' = batch_i + BATCH_SIZE
    /\ UNCHANGED << setup, loader, target_date, clock, stocks_daily, moverState, df,
                    total_records, persisted, fetched, fetch_failed, offered,
                    slowState >>

\* upsert_records(client, records, UPSERT_CHUNK); total_records += len(records)
\* The store fails chunk f (f = 0: none); upsert_records re-raises and main,
\* which has no handler, ends with the exception.
Upsert ==
    /\ pc = "Upsert"
    /\ offered' = offered \cup SeqSet(records)
    /\ \E f \in 0 .. NumChunks(records, UPSERT_CHUNK) :
        /\ stocks_daily' =
              UpsertBars(stocks_daily, Committed(records, UPSERT_CHUNK, f))
        /\ persisted' =
              UpsertBars(persisted, Committed(records, UPSERT_CHUNK, f))
        /\ IF f = 0
           THEN /\ total_records' = total_records + Len(records)
                /\ pc' = NextAfterBatch(batch_i, total_records')
                /\ batch_i' = batch_i + BATCH_SIZE
           ELSE /\ pc' = "Crashed"
                /\ UNCHANGED << total_records, batch_i >>
    /\ UNCHANGED << setup, loader, target_date, clock, moverState, df, records,
                    fetched, fetch_failed, slowState >>

\* calculate_daily_movers(client, target_date)
ComputeDailyMovers ==
    /\ pc = "ComputeDailyMovers"
    /\ pc' = "ComputeWeeklyMovers"
    /\ calculate_daily_movers
    /\ UNCHANGED << setup, loader, target_date, clock, driver >>

\* calculate_weekly_movers(client, target_date)
ComputeWeeklyMovers ==
    /\ pc = "ComputeWeeklyMovers"
    /\ pc' = "Done"
    /\ calculate_weekly_movers
    /\ UNCHANGED << setup, loader, target_date, clock, driver >>

Next ==
    \/ Start
    \/ LoadTickers
    \/ FetchBatch
    \/ Normalize
    \/ Upsert
    \/ ComputeDailyMovers
    \/ ComputeWeeklyMovers

Spec == Init /\ [][Next]_vars

----------------------------------------------------------------------------
(* StockDataLoader.run_daily_update: per ticker fetch_stock_data with its  *)
(* retry loop, insert_stock_data, the counters, then the movers.           *)
(* batch_i counts the tickers processed.                                   *)

SlowUniverse == 2   \* tickers of the CSV file

SlowCloses == {100, 120}

InitSlow ==
    /\ loader = "slow"
    /\ pc = "Idle"
    /\ target_date = NaN
    /\ clock = 1
    /\ stocks_daily \in {{}, UNION {Prior(t) : t \in 1 .. SlowUniverse}}
    /\ daily_movers = {}
    /\ weekly_movers = {}
    /\ movers = << >>
    /\ rejected = {}
    /\ calc_error = FALSE
    /\ ran = {}
    /\ Idle
    /\ Plain
    /\ env = Env(TRUE, 0, 0, SlowUniverse)

fastState == << df, records, total_records, fetched, fetch_failed, offered >>

\* the first statement after the ticker loop: `if successful > 0`
AfterTickers(n, ok) ==
    IF n < SlowUniverse THEN "Fetch"
    ELSE IF ok > 0 THEN "ComputeDailyMovers"
    ELSE "Done"

\* run_daily_update(tickers): successful = 0; failed = 0
RunDailyUpdate ==
    /\ pc = "Idle"
    /\ pc' = "Fetch"
    /\ target_date' = TargetDate
    /\ successful' = 0
    /\ failed' = 0
    /\ batch_i' = 0
    /\ UNCHANGED << setup, loader, clock, stocks_daily, moverState, fastState,
                    persisted, attempt, raised, slept, stock_data >>

\* time.sleep(2 ** attempt)
Backoff(n) == 2 ^ n

\* one pass of `for attempt in range(max_retries)` in fetch_stock_data
FetchAttempt ==
    /\ pc = "Fetch"
    /\ \/ \* hist.empty: return None
          /\ stock_data' = NoData
          /\ pc' = "Fetched"
          /\ UNCHANGED << attempt, raised, slept >>
       \/ \* return stock_data
          \E c \in SlowCloses :
            /\ stock_data' = Bar(batch_i + 1, target_date, 1, 1, 1, c, 5, clock)
            /\ pc' = "Fetched"
            /\ UNCHANGED << attempt, raised, slept >>
       \/ \* except Exception
          /\ raised' = raised + 1
          /\ IF attempt < max_retries - 1
             THEN /\ slept' = Append(slept, Backoff(attempt))
                  /\ attempt' = attempt + 1
                  /\ UNCHANGED << pc, stock_data >>
             ELSE /\ stock_data' = NoData
                  /\ pc' = "Fetched"
                  /\ UNCHANGED << attempt, slept >>
    /\ UNCHANGED << setup, loader, target_date, clock, stocks_daily, moverState,
                    fastState, persisted, batch_i, successful, failed >>

\* (a loop that counts every ticker as successful)
ProcessTickerCountsAll ==
    /\ pc = "Fetched"
    /\ IF stock_data # NoData
       THEN \/ /\ stocks_daily' = UpsertBars(stocks_daily, {stock_data})
               /\ persisted' = UpsertBars(persisted, {stock_data})
            \/ UNCHANGED << stocks_daily, persisted >>
       ELSE UNCHANGED << stocks_daily, persisted >>
    /\ successful' = successful + 1
    /\ UNCHANGED failed
    /\ batch_i' = batch_i + 1
    /\ pc' = AfterTickers(batch_i', successful')
    /\ attempt' = 0
    /\ raised' = 0
    /\ slept' = << >>
    /\ stock_data' = NoData
    /\ UNCHANGED << setup, loader, target_date, clock, moverState, fastState >>

\* if stock_data: insert_stock_data(stock_data); successful += 1
\* else: failed += 1
\* insert_stock_data logs an exception of the upsert and returns.
ProcessTicker ==
    /\ pc = "Fetched"
    /\ IF stock_data # NoData
       THEN /\ \/ /\ stocks_daily' = UpsertBars(stocks_daily, {stock_data})
                  /\ persisted' = UpsertBars(persisted, {stock_data})
               \/ \* the upsert raised
                  UNCHANGED << stocks_daily, persisted >>
            /\ successful' = successful + 1
            /\ UNCHANGED failed
       ELSE /\ failed' = failed + 1
            /\ UNCHANGED << stocks_daily, persisted, successful >>
    /\ batch_i' = batch_i + 1
    /\ pc' = AfterTickers(batch_i', successful')
    /\ attempt' = 0
    /\ raised' = 0
    /\ slept' = << >>
    /\ stock_data' = NoData
    /\ UNCHANGED << setup, loader, target_date, clock, moverState, fastState >>

\* self.calculate_and_insert_daily_movers()
SlowDailyMovers ==
    /\ pc = "ComputeDailyMovers"
    /\ pc' = "ComputeWeeklyMovers"
    /\ calculate_daily_movers
    /\ UNCHANGED << setup, loader, target_date, clock, driver >>

\* self.calculate_and_insert_weekly_movers()
SlowWeeklyMovers ==
    /\ pc = "ComputeWeeklyMovers"
    /\ pc' = "Done"
    /\ calculate_weekly_movers
    /\ UNCHANGED << setup, loader, target_date, clock, driver >>

NextSlow ==
    \/ RunDailyUpdate
    \/ FetchAttempt
    \/ ProcessTicker
    \/ SlowDailyMovers
    \/ SlowWeeklyMovers

SpecSlow == InitSlow /\ [][NextSlow]_vars

----------------------------------------------------------------------------
(* SpecConfig: the entry of main() of either loader, from the start of the *)
(* process to the first batch (fast: pc = "FetchBatch"; slow: pc = "Idle", *)
(* the call of run_daily_update) or to the end of the process, over the    *)
(* configurations a run can find.                                          *)

\* main() of StockDataLoader's file: the credentials, the loader, the CSV;
\* `return` when a credential is missing or no ticker was loaded
SlowMain ==
    /\ pc = "Main"
    /\ IF ~env.creds
       THEN /\ pc' = "Returned"
            /\ UNCHANGED tickers_df
       ELSE /\ tickers_df' = load_tickers_from_csv(env.csv)
            /\ pc' = IF tickers_df' = << >> THEN "Returned" ELSE "Idle"
    /\ UNCHANGED << db_read, env, probed, raw_data, response, loader, target_date,
                    clock, stocks_daily, moverState, driver >>

\* the exit status of the process: sys.exit(1) and an uncaught exception
\* give a non-zero status, the end of main and `return` give 0
ExitStatus == IF pc \in {"Exit", "Crashed"} THEN 1 ELSE 0

Envs ==
    {Env(c, n, b, f) :
        c \in BOOLEAN, n \in 0 .. UniverseSize,
        b \in 0 .. (UniverseSize \div page_size + 1),
        f \in {NaN} \cup (0 .. UniverseSize)}

InitConfig ==
    /\ loader \in Loaders
    /\ pc = IF loader = "fast" THEN "Idle" ELSE "Main"
    /\ target_date = NaN
    /\ clock = 1
    /\ stocks_daily = {}
    /\ daily_movers = {}
    /\ weekly_movers = {}
    /\ movers = << >>
    /\ rejected = {}
    /\ calc_error = FALSE
    /\ ran = {}
    /\ Idle
    /\ Plain
    /\ env \in Envs

NextConfig == Start \/ LoadTickers \/ SlowMain

SpecConfig == InitConfig /\ [][NextConfig]_vars

----------------------------------------------------------------------------
(* SpecPages: get_tickers_from_db, one pass of its `while True` per step,  *)
(* over a tickers table that another writer may change during the read.   *)

MaxTable == 5       \* tickers the table tickers can hold

\* (a range whose last index is left out)
select_rangeHalfOpen(rows, first, last) ==
    LET hi == IF last < Len(rows) THEN last ELSE Len(rows)
    IN  IF first + 1 > hi THEN << >> ELSE SubSeq(rows, first + 1, hi)

\* .eq("active", True).order("ticker").range(first, last): the rows at the
\* 0-based positions first .. last, both included, of the ordered rows
select_range(rows, first, last) ==
    LET hi == IF last + 1 < Len(rows) THEN last + 1 ELSE Len(rows)
    IN  IF first + 1 > hi THEN << >> ELSE SubSeq(rows, first + 1, hi)

InitPages ==
    /\ loader = "fast"
    /\ pc = "Reading"
    /\ target_date = TargetDate
    /\ clock = 1
    /\ stocks_daily = {}
    /\ daily_movers = {}
    /\ weekly_movers = {}
    /\ movers = << >>
    /\ rejected = {}
    /\ calc_error = FALSE
    /\ ran = {}
    /\ Idle
    /\ probed = TRUE
    /\ tickers_df = << >>
    /\ raw_data = {}
    /\ response = << >>
    /\ \E table \in SUBSET (1 .. MaxTable) :
          /\ db_read = [NoRead EXCEPT !.table = table]
          /\ env = Env(TRUE, Cardinality(table), 0, NaN)

\* one pass of `while True`: the page request, then the two tests
ReadPage ==
    /\ pc = "Reading"
    /\ \/ \* except Exception as e: logger.warning(...); break
          /\ db_read' = [db_read EXCEPT
                            !.requested = Append(@, db_read.offset),
                            !.failed = TRUE]
          /\ pc' = "AfterLoop"
          /\ UNCHANGED response
       \/ LET page_data == select_range(SortedSeq(db_read.table), db_read.offset,
                                        db_read.offset + page_size - 1)
          IN  /\ response' = page_data
              /\ IF page_data = << >>
                 THEN \* if not page_data: break
                      /\ db_read' = [db_read EXCEPT
                                        !.requested = Append(@, db_read.offset)]
                      /\ pc' = "AfterLoop"
                 ELSE IF Len(page_data) < page_size
                 THEN \* all_rows.extend(page_data); break
                      /\ db_read' = [db_read EXCEPT
                                        !.requested = Append(@, db_read.offset),
                                        !.all_rows = @ \o page_data]
                      /\ pc' = "AfterLoop"
                 ELSE \* all_rows.extend(page_data); offset += page_size
                      /\ db_read' = [db_read EXCEPT
                                        !.requested = Append(@, db_read.offset),
                                        !.all_rows = @ \o page_data,
                                        !.offset = @ + page_size]
                      /\ UNCHANGED pc
    /\ UNCHANGED << env, probed, tickers_df, raw_data, loader, target_date,
                    clock, stocks_daily, moverState, driver >>

\* another writer inserts, activates, deletes or deactivates one ticker
\* while the read is under way
TableChanges ==
    /\ pc = "Reading"
    /\ ~db_read.changed
    /\ \E t \in 1 .. MaxTable :
          db_read' = [db_read EXCEPT
                        !.table = IF t \in @ THEN @ \ {t} ELSE @ \cup {t},
                        !.changed = TRUE]
    /\ UNCHANGED << env, probed, tickers_df, raw_data, response, pc, loader,
                    target_date, clock, stocks_daily, moverState, driver >>

\* if not all_rows: sys.exit(1)
\* return df[["ticker", "company_name"]]
ReturnTickers ==
    /\ pc = "AfterLoop"
    /\ IF db_read.all_rows = << >>
       THEN /\ pc' = "Exit"
            /\ UNCHANGED tickers_df
       ELSE /\ pc' = "Loaded"
            /\ tickers_df' = db_read.all_rows
    /\ UNCHANGED << env, probed, raw_data, response, db_read, loader,
                    target_date, clock, stocks_daily, moverState, driver >>

NextPages == ReadPage \/ TableChanges \/ ReturnTickers

\* the read is a sequential loop: it takes its next step
SpecPages ==
    InitPages /\ [][NextPages]_vars
        /\ WF_vars(ReadPage) /\ WF_vars(ReturnTickers)

----------------------------------------------------------------------------
(* SpecOrder: the mover computations on the rows of the range query as the *)
(* store sent them, a sequence in any order, through the frames the code   *)
(* builds from it: df.sort_values(['ticker', 'date']), df['ticker']        *)
(* .unique(), df[df['ticker'] == ticker].sort_values('date') and iloc.     *)

OrderBars == 5      \* bars of ticker 1 in the table of SpecOrder

\* row a sorts strictly before row b by the columns `by`
Before(a, b, by) ==
    IF by = "ticker,date"
    THEN a.ticker < b.ticker \/ (a.ticker = b.ticker /\ a.date < b.date)
    ELSE a.date < b.date

\* (a frame left in the order of the response)
sort_valuesNone(frame, by) == frame

RECURSIVE sort_values(_, _)
\* df.sort_values(by): each row in turn goes behind the rows that do not
\* sort after it
sort_values(frame, by) ==
    IF frame = << >> THEN << >>
    ELSE LET rest == sort_values(SubSeq(frame, 1, Len(frame) - 1), by)
             x == frame[Len(frame)]
             k == Cardinality({i \in 1 .. Len(rest) : ~Before(x, rest[i], by)})
         IN  SubSeq(rest, 1, k) \o << x >> \o SubSeq(rest, k + 1, Len(rest))

RECURSIVE unique(_)
\* df['ticker'].unique(): the tickers in the order of their first row
unique(frame) ==
    IF frame = << >> THEN << >>
    ELSE LET rest == unique(SubSeq(frame, 1, Len(frame) - 1))
             t == frame[Len(frame)].ticker
         IN  IF \E i \in 1 .. Len(rest) : rest[i] = t THEN rest
             ELSE Append(rest, t)

\* ticker_data = df[df['ticker'] == ticker].sort_values('date')
ticker_data(frame, t) ==
    sort_values(SelectSeq(frame, LAMBDA r : r.ticker = t), "date")

\* the loop body on ticker_data: len(ticker_data), iloc[-2], iloc[-1], iloc[0]
BodyOn(which, tds) ==
    IF which = "daily"
    THEN IF Len(tds) < 2 THEN Skip
         ELSE DailyFrom(loader, tds[Len(tds) - 1], tds[Len(tds)], clock)
    ELSE IF Len(tds) < 5 THEN Skip
         ELSE WeeklyFrom(loader, tds[1], tds[Len(tds)], clock)

\* the outcome of the loop for the k-th ticker of unique()
Outcome(frame, which, k) == BodyOn(which, ticker_data(frame, unique(frame)[k]))

\* the tickers the loop reaches: all, or those before the first that raises
ReachedOn(frame, which) ==
    {k \in 1 .. Len(unique(frame)) :
        \A j \in 1 .. (k - 1) : Outcome(frame, which, j).kind # "error"}

\* the list `movers` when the loop ends or is left by an exception
MoversOn(frame, which) ==
    LET ks == SortedSeq({k \in ReachedOn(frame, which) :
                            Outcome(frame, which, k).kind = "mover"})
    IN  [i \in 1 .. Len(ks) |-> Outcome(frame, which, ks[i]).rec]

RaisesOn(frame, which) ==
    \E k \in 1 .. Len(unique(frame)) : Outcome(frame, which, k).kind = "error"

RECURSIVE Orders(_)
\* the orders in which the store may send the rows
Orders(rows) ==
    IF rows = {} THEN {<< >>}
    ELSE UNION {{<< x >> \o p : p \in Orders(rows \ {x})} : x \in rows}

\* ticker 1 with OrderBars bars over seven days, from 100 to cl; ticker 2
\* with one bar
OrderTables ==
    {History(7, OrderBars, 100, cl, v) \cup {Bar(2, TargetDate - 1, 1, 1, 1, 100, 5, 0)} :
        cl \in {100, 120}, v \in Volumes}

InitOrder ==
    /\ loader \in Loaders
    /\ pc = "ready"
    /\ target_date = TargetDate
    /\ clock = 1
    /\ stocks_daily \in OrderTables
    /\ daily_movers = {}
    /\ weekly_movers = {}
    /\ movers = << >>
    /\ rejected = {}
    /\ calc_error = FALSE
    /\ ran = {}
    /\ Idle
    /\ Plain
    /\ env = Env(TRUE, NumTickers, 0, NumTickers)

\* response = client.table('stocks_daily').select('*').gte(...).lte(...)
\*                  .execute(), of either computation
Query ==
    /\ pc = "ready"
    /\ \E which \in {"daily", "weekly"} :
          /\ pc' = which
          /\ \E p \in Orders(IF which = "daily" THEN DailyRows ELSE WeeklyRows) :
                response' = p
    /\ UNCHANGED << db_read, env, probed, tickers_df, raw_data, loader, target_date,
                    clock, stocks_daily, daily_movers, weekly_movers, movers,
                    rejected, calc_error, ran, driver >>

\* the computation from `if not response.data` to the last upsert
Detect ==
    /\ pc \in {"daily", "weekly"}
    /\ pc' = IF pc = "daily" THEN "daily_done" ELSE "weekly_done"
    /\ ran' = ran \cup {pc}
    /\ LET frame == sort_values(response, "ticker,date")
           ms == MoversOn(frame, pc)
       IN  IF response = << >> \/ RaisesOn(frame, pc)
           THEN /\ movers' = ms
                /\ rejected' = {}
                /\ calc_error' = (response # << >>)
                /\ UNCHANGED << daily_movers, weekly_movers >>
           ELSE \E rej \in SUBSET (1 .. Len(ms)) :
                  /\ movers' = ms
                  /\ rejected' = rej
                  /\ calc_error' = FALSE
                  /\ IF pc = "daily"
                     THEN /\ daily_movers' =
                               UpsertDaily(daily_movers, Accepted(ms, rej))
                          /\ UNCHANGED weekly_movers
                     ELSE /\ weekly_movers' =
                               UpsertWeekly(weekly_movers, Accepted(ms, rej))
                          /\ UNCHANGED daily_movers
    /\ UNCHANGED << setup, loader, target_date, clock, stocks_daily, driver >>

NextOrder == Query \/ Detect

SpecOrder == InitOrder /\ [][NextOrder]_vars

----------------------------------------------------------------------------
(* SpecNorm: fetch_batch_data, prepare_records and upsert_records applied  *)
(* twice to one raw frame, as two runs of the loader on the same day do.   *)
(*                                                                         *)
(* The raw frame has at most one row per ticker, on the target date.  The  *)
(* row of ticker 1 takes every combination of a missing or invalid price,  *)
(* close and volume; the other tickers have a close or none; a row without *)
(* a ticker is one that prepare_records is handed directly.                *)

OHL == {<< 1, 1, 1 >>, << NaN, 1, 1 >>, << 1, Invalid, 1 >>, << 1, 1, NaN >>}
NormCloses == {NaN, Invalid, 100}
NormVolumes == {NaN, Invalid, -5, 5}

RawRows(t) ==
    IF t = 1
    THEN {Raw(1, TargetDate, p[1], p[2], p[3], c, v) :
             p \in OHL, c \in NormCloses, v \in NormVolumes}
    ELSE IF isna(t) THEN {Raw(NaN, TargetDate, 1, 1, 1, 100, 5)}
    ELSE {Raw(t, TargetDate, 1, 1, 1, c, 5) : c \in {NaN, 120}}

RECURSIVE RawFrames(_)
\* the frames with at most one row for each ticker of ts
RawFrames(ts) ==
    IF ts = {} THEN {{}}
    ELSE LET t == CHOOSE x \in ts : TRUE
             rest == RawFrames(ts \ {t})
         IN  rest \cup {f \cup {r} : f \in rest, r \in RawRows(t)}

\* the table before the run: empty, the bars of the days before, or those
\* and a bar of ticker 1 for the target date that an earlier run left
Stored ==
    {{}, UNION {Prior(t) : t \in Tickers},
     UNION {Prior(t) : t \in Tickers}
         \cup {Bar(1, TargetDate, 1, 1, 1, 90, 5, 0)}}

InitNorm ==
    /\ loader = "fast"
    /\ pc = "Raw"
    /\ target_date = TargetDate
    /\ clock = 1
    /\ stocks_daily \in Stored
    /\ daily_movers = {}
    /\ weekly_movers = {}
    /\ movers = << >>
    /\ rejected = {}
    /\ calc_error = FALSE
    /\ ran = {}
    /\ Idle
    /\ env = Env(TRUE, NumTickers, 0, NaN)
    /\ probed = TRUE
    /\ tickers_df = SortedSeq(Tickers)
    /\ raw_data \in RawFrames(Tickers \cup {NaN})
    /\ response = << >>
    /\ db_read = NoRead

\* df = fetch_batch_data(batch, target_date), on the frame of a download
NormFetch ==
    /\ pc = "Raw"
    /\ \A r \in raw_data : ~isna(r.ticker)
    /\ df' = fetch_batch_data(raw_data)
    /\ fetched' = {0}
    /\ pc' = "Frame"
    /\ UNCHANGED << setup, loader, target_date, clock, stocks_daily,
                    moverState, batch_i, records, total_records, persisted,
                    fetch_failed, offered, slowState >>

\* prepare_records handed a frame as it is
NormDirect ==
    /\ pc = "Raw"
    /\ df' = raw_data
    /\ pc' = "Frame"
    /\ UNCHANGED << setup, loader, target_date, clock, stocks_daily,
                    moverState, batch_i, records, total_records, persisted,
                    fetched, fetch_failed, offered, slowState >>

\* records = prepare_records(df, ticker_map), the first time and again;
\* time passes
NormPrepare ==
    /\ pc \in {"Frame", "Stored"}
    /\ records' = prepare_records(df, clock)
    /\ clock' = clock + 1
    /\ pc' = IF pc = "Frame" THEN "Prepared" ELSE "PreparedAgain"
    /\ UNCHANGED << setup, loader, target_date, stocks_daily, moverState,
                    batch_i, df, total_records, persisted, fetched,
                    fetch_failed, offered, slowState >>

\* upsert_records(client, records, UPSERT_CHUNK); the store fails chunk f
NormUpsert ==
    /\ pc \in {"Prepared", "PreparedAgain"}
    /\ offered' = offered \cup SeqSet(records)
    /\ \E f \in 0 .. NumChunks(records, UPSERT_CHUNK) :
        /\ stocks_daily' =
              UpsertBars(stocks_daily, Committed(records, UPSERT_CHUNK, f))
        /\ persisted' =
              UpsertBars(persisted, Committed(records, UPSERT_CHUNK, f))
        /\ IF f = 0
           THEN /\ total_records' = total_records + Len(records)
                /\ pc' = IF pc = "Prepared" THEN "Stored" ELSE "StoredAgain"
           ELSE /\ pc' = "Crashed"
                /\ UNCHANGED total_records
    /\ UNCHANGED << setup, loader, target_date, clock, moverState, batch_i,
                    df, records, fetched, fetch_failed, slowState >>

NextNorm == NormFetch \/ NormDirect \/ NormPrepare \/ NormUpsert

SpecNorm == InitNorm /\ [][NextNorm]_vars

----------------------------------------------------------------------------
(* Claims about the mover computations (specification SpecMovers) *)

\* what the specification calls the two bars of a daily comparison
LastTwo(td) ==
    LET curr == CHOOSE r \in td : \A x \in td : x.date <= r.date
        prev == CHOOSE r \in td \ {curr} : \A x \in td \ {curr} : x.date <= r.date
    IN  [prev |-> prev, curr |-> curr]

\* prev != 0 and abs((curr - prev) / prev * 100) >= threshold, false when
\* either close is missing
ChangeAtLeast(prev, curr, threshold) ==
    /\ prev # NaN /\ curr # NaN
    /\ prev # 0
    /\ Abs(curr - prev) * 100 >= threshold * Abs(prev)

EmittedFor(t) == {i \in DOMAIN movers : movers[i].ticker = t}

\* C1: after a daily computation, a ticker with at least two bars in the
\* window has a record keyed (ticker, curr.date) in the emitted list iff
\* prev.close != 0 and abs((curr.close - prev.close) / prev.close * 100) >=
\* threshold, with percent_change that value rounded to 2 decimals; a
\* ticker with fewer than two bars emits nothing.  (Stated for the runs in
\* which no ticker raised; those are C6's.)
C1_DailyMoverIff ==
    (pc = "daily_done" /\ ~calc_error) =>
        \A t \in Tickers :
            LET td == TickerData(DailyRows, t)
            IN  IF Cardinality(td) < 2 THEN EmittedFor(t) = {}
                ELSE LET p == LastTwo(td).prev.close_price
                         c == LastTwo(td).curr.close_price
                     IN  /\ (\E i \in EmittedFor(t) :
                                 movers[i].date = LastTwo(td).curr.date)
                             <=> ChangeAtLeast(p, c, min_percent)
                         /\ \A i \in EmittedFor(t) :
                                /\ movers[i].date = LastTwo(td).curr.date
                                /\ p # 0 /\ p # NaN
                                /\ movers[i].percent_change = Round2(p, c)

\* C2: a ticker whose previous close (daily) or week-start close (weekly)
\* is 0 or missing never gets a row in daily_movers / weekly_movers, and
\* the other tickers of the run are still evaluated: each of them that
\* meets the mover conditions is in the emitted list (in the runs in which
\* no ticker raised; those are C6's).
C2_ZeroGuard ==
    /\ pc = "daily_done" =>
         \A t \in Tickers :
            LET td == TickerData(DailyRows, t)
            IN  (Cardinality(td) >= 2
                 /\ LastTwo(td).prev.close_price \in {0, NaN})
                => /\ \A m \in daily_movers : m.ticker # t
                   /\ calc_error \/ \A u \in Tickers \ {t} :
                        LET ud == TickerData(DailyRows, u)
                        IN  (Cardinality(ud) >= 2
                             /\ LastTwo(ud).curr.volume # NaN
                             /\ ChangeAtLeast(LastTwo(ud).prev.close_price,
                                              LastTwo(ud).curr.close_price,
                                              min_percent))
                            => EmittedFor(u) # {}
    /\ pc = "weekly_done" =>
         \A t \in Tickers :
            LET td == TickerData(WeeklyRows, t)
            IN  (Cardinality(td) >= 5
                 /\ Oldest(td).close_price \in {0, NaN})
                => \A m \in weekly_movers : m.ticker # t

\* the weekly conditions of the specification
WeekEligible(td, threshold) ==
    /\ Cardinality(td) >= 5
    /\ Newest(td).date - Oldest(td).date >= 5
    /\ Newest(td).date - Oldest(td).date <= 9
    /\ ChangeAtLeast(Oldest(td).close_price, Newest(td).close_price, threshold)

\* C3: after a weekly computation, a ticker has a record keyed (ticker,
\* week_end_date) in the emitted list iff it has at least 5 bars in the
\* window, their span is within [5, 9] days, its week-start close is
\* neither 0 nor missing and abs(pct) >= threshold.
C3_WeeklyMoverIff ==
    pc = "weekly_done" =>
        \A t \in Tickers :
            LET td == TickerData(WeeklyRows, t)
            IN  /\ (\E i \in EmittedFor(t) :
                        td # {} /\ movers[i].week_end_date = Newest(td).date)
                    <=> WeekEligible(td, min_percent)
                /\ ~WeekEligible(td, min_percent) => EmittedFor(t) = {}

\* C6: when the computation of one ticker raises, only that ticker is
\* skipped: every other ticker that meets the mover conditions has its
\* record upserted.
C6_TickerErrorIsolated ==
    /\ (pc = "daily_done" /\ calc_error) =>
         \A u \in Tickers :
            DailyBodyNow(TickerData(DailyRows, u)).kind = "mover"
            => DailyBodyNow(TickerData(DailyRows, u)).rec \in daily_movers
    /\ (pc = "weekly_done" /\ calc_error) =>
         \A u \in Tickers :
            WeeklyBodyNow(TickerData(WeeklyRows, u)).kind = "mover"
            => WeeklyBodyNow(TickerData(WeeklyRows, u)).rec \in weekly_movers

\* C10: when the store rejects the upsert of some mover records, exactly
\* those records are missing from the table, every other record of the
\* list is in it, whatever the position of the rejected ones, and the
\* computation returns normally.
C10_RejectedMoverDropped ==
    /\ pc = "daily_done" =>
         \A i \in DOMAIN movers :
            calc_error \/ ((movers[i] \in daily_movers) <=> (i \notin rejected))
    /\ pc = "weekly_done" =>
         \A i \in DOMAIN movers :
            calc_error \/ ((movers[i] \in weekly_movers) <=> (i \notin rejected))
    /\ rejected # {} => (pc \in {"daily_done", "weekly_done"} /\ ~calc_error)

\* the store rejected the first of two daily movers and took the second
C10_Witness ==
    /\ pc = "daily_done"
    /\ Len(movers) = NumTickers
    /\ rejected = {1}
    /\ movers[1] \notin daily_movers
    /\ movers[NumTickers] \in daily_movers

\* the store took every upsert of the run before and of this one
BothAccepted == rejected = {} /\ rejected' = {}
SecondDaily == pc = "daily_rerun" /\ pc' = "daily_twice"
SecondWeekly == pc = "weekly_rerun" /\ pc' = "weekly_twice"
ContentOf(ms) == [i \in DOMAIN ms |-> [ms[i] EXCEPT !.created_at = 0]]
ContentIn(table) == {[m EXCEPT !.created_at = 0] : m \in table}

\* C12 as stated: a second run of a mover computation on the same
\* stocks_daily table, target date and threshold leaves the rows of its
\* mover table identical to those after the first run (the store taking
\* every upsert of both runs).
C12_SameRows ==
    [][/\ (SecondDaily /\ BothAccepted) => daily_movers' = daily_movers
       /\ (SecondWeekly /\ BothAccepted) => weekly_movers' = weekly_movers]_vars

\* C12 as amended: the second run emits the records of the first with a
\* new created_at and nothing else changed, whatever the first run left in
\* the mover table, and ends as the first did; when the store took every
\* upsert of both runs the mover table has the same keys, one row per key,
\* and every field other than created_at of every row is what it was
\* after the first run.
C12_SameButCreatedAt ==
    [][/\ (SecondDaily \/ SecondWeekly) =>
            /\ ContentOf(movers') = ContentOf(movers)
            /\ calc_error' = calc_error
            /\ \A i \in DOMAIN movers' : movers'[i].created_at = clock
       /\ (SecondDaily /\ BothAccepted) =>
            /\ ContentIn(daily_movers') = ContentIn(daily_movers)
            /\ Cardinality(daily_movers') = Cardinality(daily_movers)
            /\ weekly_movers' = weekly_movers
       /\ (SecondWeekly /\ BothAccepted) =>
            /\ ContentIn(weekly_movers') = ContentIn(weekly_movers)
            /\ Cardinality(weekly_movers') = Cardinality(weekly_movers)
            /\ daily_movers' = daily_movers]_vars

\* the second daily run wrote again the two movers of the first
C12_Witness ==
    /\ pc = "daily_twice"
    /\ Len(movers) = NumTickers
    /\ rejected = {}
    /\ Cardinality(daily_movers) = NumTickers
    /\ \A m \in daily_movers : m.created_at = 2

\* C15: for a ticker that has at least two bars up to the target date, the
\* window of the daily computation holds the two latest of them, whatever
\* the number of non-trading days between the two (stated here for the
\* gaps a weekend and a holiday make: the two bars at most 4 days apart).
C15_WindowHoldsLastTwo ==
    \A t \in Tickers :
        LET bars == {r \in stocks_daily :
                        r.ticker = t /\ r.date <= DailyHi(loader, target_date)}
        IN  (Cardinality(bars) >= 2
             /\ LastTwo(bars).curr.date - LastTwo(bars).prev.date <= 4)
            => /\ LastTwo(bars).prev \in DailyRows
               /\ LastTwo(bars).curr \in DailyRows

----------------------------------------------------------------------------
(* Claims about the drivers *)

\* C4: in a run of either driver, when no price record was persisted to
\* stocks_daily during the run, neither mover computation is executed.
\* (Specification SpecSlow: run_daily_update.)
C4_NoRecordsNoMovers == persisted = {} => ran = {}

AfterLoop == {"ComputeDailyMovers", "ComputeWeeklyMovers", "Done", "Exit"}

C5_Step ==
    /\ pc = "Idle" => (pc' = "LoadTickers" /\ fetched' = {})
    /\ pc = "LoadTickers" => (pc' = "FetchBatch" /\ fetched' = {})
    \* a fetch begins only between two batches, the earlier ones complete
    /\ fetched' # fetched =>
         /\ pc = "FetchBatch"
         /\ fetched' = fetched \cup {batch_i}
         /\ fetched = {i \in BatchStarts : i < batch_i}
    /\ pc' = "Normalize" =>
         (pc = "FetchBatch" /\ batch_i' = batch_i /\ batch_i \in fetched')
    /\ pc' = "Upsert" => (pc = "Normalize" /\ batch_i' = batch_i)
    /\ stocks_daily' # stocks_daily => pc = "Upsert"
    /\ batch_i' # batch_i =>
         ((pc \in {"FetchBatch", "Normalize", "Upsert"} \/ pc = "LoadTickers")
          /\ pc' \in {"FetchBatch", "ComputeDailyMovers", "Exit"})
    \* the movers start after the last batch, daily before weekly
    /\ pc' = "ComputeDailyMovers" =>
         /\ pc \in {"FetchBatch", "Normalize", "Upsert"}
         /\ fetched' = BatchStarts
         /\ batch_i' >= UniverseSize
    /\ ran' # ran =>
         \/ (pc = "ComputeDailyMovers" /\ ran = {} /\ ran' = {"daily"})
         \/ (pc = "ComputeWeeklyMovers" /\ ran = {"daily"}
             /\ ran' = {"daily", "weekly"})
    /\ pc' = "ComputeWeeklyMovers" => (pc = "ComputeDailyMovers" /\ ran' = {"daily"})
    /\ pc' = "Done" => (pc = "ComputeWeeklyMovers" /\ ran' = {"daily", "weekly"})
    \* no bar upsert once the mover computation has started
    /\ (pc \in AfterLoop \/ ran # {}) =>
         (stocks_daily' = stocks_daily /\ fetched' = fetched
          /\ persisted' = persisted)

\* C5: one run of main() goes Idle -> LoadTickers -> {FetchBatch ->
\* Normalize -> Upsert}* -> ComputeDailyMovers -> ComputeWeeklyMovers ->
\* Done: every step is taken from the step before it in that order, a
\* batch is fetched only when the batches before it are complete, the
\* movers start after the last batch, weekly after daily, and no bar is
\* upserted once they have started.
C5_PipelineOrder == [][C5_Step]_vars

\* a complete run: every batch upserted, then both mover computations
C5_Witness ==
    /\ pc = "Done"
    /\ fetched = BatchStarts
    /\ Cardinality(persisted) = UniverseSize
    /\ ran = {"daily", "weekly"}

\* C7: a failed upsert of price records is not lost: the records of the
\* failed upsert are not counted as persisted by the driver, which counts
\* at most as many records as the store committed during the run.
\* (Specification SpecSlow: insert_stock_data.)
C7_FailedUpsertNotCounted ==
    /\ loader = "slow" => successful <= Cardinality(persisted)
    /\ loader = "fast" => total_records <= Cardinality(persisted)

C8_Step ==
    fetch_failed' # fetch_failed =>
        /\ pc' # "Crashed"
        /\ pc' = (IF batch_i + BATCH_SIZE < UniverseSize THEN "FetchBatch"
                  ELSE IF total_records > 0 THEN "ComputeDailyMovers"
                  ELSE "Exit")
        /\ batch_i' = batch_i + BATCH_SIZE
        /\ stocks_daily' = stocks_daily
        /\ persisted' = persisted
        /\ total_records' = total_records

C8_AtEnd ==
    pc \in AfterLoop =>
        /\ fetched = BatchStarts
        /\ persisted = offered
        /\ persisted \subseteq stocks_daily
        /\ \A r \in persisted : BatchOf(r.ticker) \notin fetch_failed
        /\ total_records = Cardinality(persisted)

\* C8: a download failure of a whole batch is not fatal: the run goes on
\* with the next batch (or to the end of the loop) with the store and the
\* count untouched, and when the loop ends every batch has been fetched
\* and every record prepared from the batches that did download is in
\* stocks_daily, none from the failed ones.
C8_FetchFailureNotFatal == [][C8_Step]_vars /\ []C8_AtEnd

\* the first batch failed to download and a later one was persisted
C8_Witness ==
    /\ pc = "ComputeDailyMovers"
    /\ 0 \in fetch_failed
    /\ persisted # {}
    /\ \E r \in persisted : BatchOf(r.ticker) # 0

\* C9: fetch_stock_data makes at most 3 attempts when they keep failing,
\* sleeps 1s, 2s, 4s after the failed attempts, and then returns None.
C9_RetryBackoff ==
    /\ raised <= max_retries
    /\ (pc = "Fetched" /\ raised = max_retries) =>
         (stock_data = NoData /\ slept = << 1, 2, 4 >>)

----------------------------------------------------------------------------
(* Claims about the normalizer and the bar upsert (specification SpecNorm) *)

KeysOf(table) == {BarKey(r) : r \in table}
OneRowPerKey(table) == \A a, b \in table : BarKey(a) = BarKey(b) => a = b
Content(r) == [r EXCEPT !.created_at = 0]
SecondUpsert == pc = "PreparedAgain" /\ pc' = "StoredAgain"

\* C11 as stated: after prepare_records and upsert_records have been
\* applied a second time to the same raw frame, stocks_daily has one row
\* per (ticker, date) and every field of every row is what it was after
\* the first application.
C11_SameFields ==
    [][SecondUpsert =>
          (OneRowPerKey(stocks_daily') /\ stocks_daily' = stocks_daily)]_vars

\* C11 as amended: after the second application stocks_daily has one row
\* per (ticker, date), the same keys as after the first, and every field
\* other than created_at of every row is what it was after the first;
\* created_at of the rows of the frame is the time of the second
\* application, and the rows of other keys are untouched.
C11_SameButCreatedAt ==
    [][SecondUpsert =>
          /\ OneRowPerKey(stocks_daily')
          /\ KeysOf(stocks_daily') = KeysOf(stocks_daily)
          /\ {Content(r) : r \in stocks_daily'} =
                 {Content(r) : r \in stocks_daily}
          /\ \A r \in stocks_daily' :
                IF BarKey(r) \in KeysOf(SeqSet(records))
                THEN r \in SeqSet(records) /\ r.created_at = clock - 1
                ELSE r \in stocks_daily]_vars

\* both applications stored the records of a frame; the row of the second
\* is in the table
C11_Witness ==
    /\ pc = "StoredAgain"
    /\ Len(records) >= 2
    /\ SeqSet(records) \subseteq stocks_daily
    /\ \A r \in SeqSet(records) : r.created_at = 2
    /\ \E r \in stocks_daily : r.created_at = 0

Numeric(x) == x # NaN /\ x # Invalid
RecordsOf(r) ==
    {i \in DOMAIN records :
        records[i].ticker = r.ticker /\ records[i].date = r.date}
Prepared == pc \in {"Prepared", "PreparedAgain"}

\* C16: a row of the frame gives one record iff its ticker is present and
\* its close is present and numeric, and none otherwise; every record has
\* a numeric close_price, that of its row; a kept row has open_price,
\* high_price and low_price equal to its open, high and low when they are
\* numeric and null when they are missing or invalid.
C16_NormalizerKeeps ==
    Prepared =>
        /\ \A r \in df :
              Cardinality(RecordsOf(r)) =
                 (IF ~isna(r.ticker) /\ Numeric(r.close) THEN 1 ELSE 0)
        /\ \A i \in DOMAIN records :
              /\ Numeric(records[i].close_price)
              /\ \E r \in df : i \in RecordsOf(r)
        /\ \A r \in df : \A i \in RecordsOf(r) :
              /\ records[i].close_price = r.close
              /\ records[i].open_price = (IF Numeric(r.open) THEN r.open ELSE NaN)
              /\ records[i].high_price = (IF Numeric(r.high) THEN r.high ELSE NaN)
              /\ records[i].low_price = (IF Numeric(r.low) THEN r.low ELSE NaN)

\* a row with an invalid high was kept with a null high_price, beside a row
\* without a ticker and a row without a close that were dropped
C16_Witness ==
    /\ pc = "Prepared"
    /\ \E r \in df : r.high = Invalid /\ \E i \in RecordsOf(r) :
                          records[i].high_price = NaN
    /\ \E r \in df : isna(r.ticker)
    /\ \E r \in df : ~isna(r.ticker) /\ isna(r.close) /\ RecordsOf(r) = {}

\* C17: every record of prepare_records has a volume that is >= 0, and 0
\* when the raw volume is missing or invalid.
C17_VolumeNonNegative ==
    Prepared =>
        \A r \in df : \A i \in RecordsOf(r) :
            /\ records[i].volume >= 0
            /\ ~Numeric(r.volume) => records[i].volume = 0

HasData(t) == \E x \in raw_data : x.ticker = t /\ ~isna(x.close)

\* C18: after fetch_batch_data and prepare_records on a download, the
\* tickers of the records are among the tickers for which the download has
\* a close, so they are at most as many, the run is not ended, and the
\* records of a ticker that has data are those prepare_records gives for
\* the rows of that ticker alone.
C18_MissingTickersExcluded ==
    (fetched # {} /\ pc = "Prepared") =>
        /\ {records[i].ticker : i \in DOMAIN records}
              \subseteq {t \in Tickers : HasData(t)}
        /\ Cardinality({records[i].ticker : i \in DOMAIN records})
              <= Cardinality({t \in Tickers : HasData(t)})
        /\ \A t \in Tickers :
              HasData(t) =>
                 SelectSeq(records, LAMBDA m : m.ticker = t) =
                    prepare_records({r \in raw_data : r.ticker = t}, clock - 1)

\* one ticker of the download has no close, another one has a record
C18_Witness ==
    /\ pc = "Prepared"
    /\ fetched # {}
    /\ \E r \in raw_data : ~HasData(r.ticker)
    /\ \E t \in Tickers : HasData(t) /\ \E i \in DOMAIN records :
                                           records[i].ticker = t

----------------------------------------------------------------------------
(* Claims about the end and the entry of a run *)

\* the run is over, not by an exception
Ended == pc \in {"Done", "Exit", "Returned"}

\* C13: a run of either loader that ends ends with a non-zero exit status
\* when no record was loaded during the run, and with status 0 otherwise,
\* whether or not a mover was found.
\* (Specification SpecSlow: main of StockDataLoader's file.)
C13_ExitStatus == Ended => (ExitStatus # 0 <=> persisted = {})

\* the ticker universe of the run is empty: the fast loader finds no
\* active ticker in the table and none in the CSV file, the slow loader
\* none in the CSV file
EmptyUniverse ==
    IF loader = "fast" THEN env.db = 0 /\ env.csv <= 0 ELSE env.csv <= 0

\* C14: when the store credentials are missing or the ticker universe is
\* empty, the run ends without the SPY probe of the target date, without
\* a bar fetch and without a store write, and never enters the batch loop.
C14_ConfigErrorsFatal ==
    (~env.creds \/ EmptyUniverse) =>
        /\ ~probed
        /\ fetched = {} /\ stock_data = NoData
        /\ offered = {} /\ persisted = {} /\ ran = {}
        /\ pc \in {"Idle", "Main", "LoadTickers", "Exit", "Returned"}
        /\ (loader = "slow" => pc # "Idle")

----------------------------------------------------------------------------
(* Claims about the rows of stocks_daily (specification Spec) *)

C19_Step ==
    \* no key leaves the table
    /\ KeysOf(stocks_daily) \subseteq KeysOf(stocks_daily')
    \* a row is replaced only by the upsert of a record of its key
    /\ \A r \in stocks_daily \ stocks_daily' :
          /\ pc = "Upsert"
          /\ \E n \in SeqSet(records) :
                BarKey(n) = BarKey(r) /\ n \in stocks_daily'
    \* a row comes only from the upsert of the bar-loading step
    /\ \A n \in stocks_daily' \ stocks_daily :
          pc = "Upsert" /\ n \in SeqSet(records)
    /\ OneRowPerKey(stocks_daily) => OneRowPerKey(stocks_daily')
    \* the mover computations leave the table alone
    /\ pc \in {"ComputeDailyMovers", "ComputeWeeklyMovers"} =>
          stocks_daily' = stocks_daily

----------------------------------------------------------------------------
(* Claims about the order of the rows (specification SpecOrder) *)

\* the rows of ticker t in the response, as the loop body sees them
Seen(t) == ticker_data(sort_values(response, "ticker,date"), t)
Sent == SeqSet(response)

\* C20: whatever the order in which the store sends the rows of the range
\* query, the daily computation reads as prev and curr the two latest rows
\* by date of each ticker and the weekly computation as week start and
\* week end the earliest and the latest, each ticker is visited once, and
\* the mover records emitted and upserted are those of the rows as a set.
C20_OrderIndependent ==
    /\ pc \in {"daily", "weekly"} =>
          /\ SeqSet(unique(sort_values(response, "ticker,date")))
                = {r.ticker : r \in Sent}
          /\ Len(unique(sort_values(response, "ticker,date")))
                = Cardinality({r.ticker : r \in Sent})
          /\ \A t \in {r.ticker : r \in Sent} :
                /\ SeqSet(Seen(t)) = TickerData(Sent, t)
                /\ Len(Seen(t)) = Cardinality(TickerData(Sent, t))
                /\ Seen(t)[Len(Seen(t))] = Newest(TickerData(Sent, t))
                /\ Seen(t)[1] = Oldest(TickerData(Sent, t))
                /\ Len(Seen(t)) >= 2 =>
                      Seen(t)[Len(Seen(t)) - 1] = LastTwo(TickerData(Sent, t)).prev
    /\ pc = "daily_done" =>
          /\ movers = MoversList(IF LoopRaises(DailyRows, "daily")
                                  THEN Reached(DailyRows, "daily")
                                  ELSE DailyRows, "daily")
          /\ calc_error = LoopRaises(DailyRows, "daily")
          /\ ~calc_error => daily_movers = Accepted(movers, rejected)
    /\ pc = "weekly_done" =>
          /\ movers = MoversList(IF LoopRaises(WeeklyRows, "weekly")
                                  THEN Reached(WeeklyRows, "weekly")
                                  ELSE WeeklyRows, "weekly")
          /\ calc_error = LoopRaises(WeeklyRows, "weekly")
          /\ ~calc_error => weekly_movers = Accepted(movers, rejected)

\* the rows came latest first and the daily mover of ticker 1 was found
C20_Witness ==
    /\ pc = "daily_done"
    /\ Len(response) >= 3
    /\ response[1].date = TargetDate
    /\ response[Len(response)].ticker = 1
    /\ \A i \in 1 .. (Len(response) - 1) : response[i + 1].date <= response[i].date
    /\ Len(movers) = 1 /\ movers[1].ticker = 1
    /\ movers[1] \in daily_movers

----------------------------------------------------------------------------
(* Claims about the counters of run_daily_update (specification SpecSlow) *)

\* after the i-th ticker (batch_i = i) the counters add up to i
CountersAddUp == successful + failed = batch_i

\* a step keeps both counters or processes one ticker, which increments
\* exactly one of them, `successful` only when the fetch returned data
CountersStep ==
    /\ successful' >= successful
    /\ failed' >= failed
    /\ IF batch_i' = batch_i
       THEN successful' = successful /\ failed' = failed
       ELSE /\ batch_i' = batch_i + 1
            /\ \/ /\ successful' = successful + 1
                  /\ failed' = failed
                  /\ stock_data # NoData
               \/ /\ successful' = successful
                  /\ failed' = failed + 1
                  /\ stock_data = NoData

\* C21: in StockDataLoader.run_daily_update, after the i-th ticker has been
\* processed successful + failed = i, neither counter ever decreases, each
\* ticker increments exactly one of them, and successful is incremented
\* only for a ticker whose fetch returned data.
C21_Counters == [](CountersAddUp) /\ [][CountersStep]_vars

\* every ticker was processed, one with data and one without
C21_Witness ==
    /\ loader = "slow"
    /\ pc = "Done"
    /\ batch_i = SlowUniverse
    /\ successful >= 1
    /\ failed >= 1

----------------------------------------------------------------------------
(* Claims about the paginated ticker read (specification SpecPages) *)

\* get_tickers_from_db has left its loop and returned or exited
ReadOver == pc \in {"Loaded", "Exit"}

\* no page request failed and the table did not change during the read
QuietRead == ~db_read.failed /\ ~db_read.changed

\* the pages are requested at offsets 0, page_size, 2 * page_size, ...
OffsetsInSteps ==
    \A i \in 1 .. Len(db_read.requested) :
        db_read.requested[i] = (i - 1) * page_size

\* a quiet read returns every active ticker exactly once, in ticker order,
\* after stopping at the first page that is empty or short: one request per
\* full page and one more
ReadsAll ==
    ReadOver /\ QuietRead =>
        /\ db_read.all_rows = SortedSeq(db_read.table)
        /\ Len(db_read.requested) = Cardinality(db_read.table) \div page_size + 1
        /\ Len(response) < page_size
        /\ pc = "Loaded" => tickers_df = db_read.all_rows
        /\ pc = "Exit" <=> db_read.table = {}
        /\ db_read.table = 1 .. env.db =>
              db_read.all_rows = get_tickers_from_db(env.db, 0)

\* C23: get_tickers_from_db terminates for every table size, and when no
\* page request fails and the table does not change during the read it
\* returns every active ticker exactly once: pages are requested at offsets
\* 0, page_size, 2 * page_size, ... and the read stops at the first page
\* that is empty or shorter than the page size, also when the number of
\* active tickers is an exact multiple of the page size.
C23_PaginatedRead == <>ReadOver /\ [](OffsetsInSteps) /\ [](ReadsAll)

\* a quiet read of two full pages, ended by a third, empty page
C23_Witness ==
    /\ pc = "Loaded"
    /\ QuietRead
    /\ Cardinality(db_read.table) = 2 * page_size
    /\ db_read.requested = << 0, page_size, 2 * page_size >>
    /\ response = << >>
    /\ Len(tickers_df) = 2 * page_size

----------------------------------------------------------------------------
(* Claims about the mover tables across runs (specification SpecRetain) *)

\* the keys of the records the computation of this step emitted
EmittedDaily == {DailyKey(movers'[i]) : i \in 1 .. Len(movers')}
EmittedWeekly == {WeeklyKey(movers'[i]) : i \in 1 .. Len(movers')}

\* every row of a mover table is still there after the step, unchanged,
\* unless the step emitted a record of its key, which is then the row
KeepsMovers ==
    /\ \A r \in daily_movers :
          \/ r \in daily_movers'
          \/ /\ "daily" \in ran'
             /\ DailyKey(r) \in EmittedDaily
             /\ \E m \in daily_movers' : DailyKey(m) = DailyKey(r)
    /\ \A r \in weekly_movers :
          \/ r \in weekly_movers'
          \/ /\ "weekly" \in ran'
             /\ WeeklyKey(r) \in EmittedWeekly
             /\ \E m \in weekly_movers' : WeeklyKey(m) = WeeklyKey(r)

\* C22: mover rows are never deleted or retracted: a daily_movers or
\* weekly_movers row an earlier run wrote stays in the table, unchanged,
\* after a later run in which the recomputed change of its ticker is below
\* the threshold, is skipped by a guard or falls on another key; a later
\* run only overwrites rows whose key it emits again.
C22_MoversRetained == [][KeepsMovers]_vars

\* the first run wrote the daily mover of ticker 1, the later load brought
\* its close back to the previous close, and the later run, which emitted
\* nothing for ticker 1, left the row as the first run wrote it
C22_Witness ==
    /\ pc = "daily_twice"
    /\ clock = 2
    /\ target_date = TargetDate
    /\ \E b \in stocks_daily :
          b.ticker = 1 /\ b.date = TargetDate /\ b.close_price = 100
          /\ b.created_at = 2
    /\ \A i \in 1 .. Len(movers) : movers[i].ticker # 1
    /\ ~calc_error
    /\ \E r \in daily_movers :
          r.ticker = 1 /\ r.date = TargetDate /\ r.created_at = 1
          /\ r.current_close = 120

=============================================================================
